---- MODULE Spec2Model ----
(***************************************************************************)
(* rag-bench: the benchmark runner (benchmark/runner.py), the retriever    *)
(* base class and its three strategies (retrievers/*.py) and the profiler  *)
(* (utils/profiler.py), as state machines.                                 *)
(*                                                                         *)
(*   Spec           BenchmarkRunner.run_all, one step per external call    *)
(***************************************************************************)
EXTENDS Integers, Sequences, FiniteSets, TLC

VARIABLES
    \* ---- BenchmarkRunner (benchmark/runner.py) ----
    retrievers,     \* self.retrievers: the names, in dict order
    generators,     \* self.generators: the names, in dict order
    questions,      \* self.questions
    ret_is_setup,   \* _is_setup of the retriever behind each retriever name
    pc,             \* where run_all stands
    q_i,            \* index of the question of the outer loop (1-based)
    c_i,            \* index of the combination of the inner / judging loop (1-based)
    ret_result,     \* the RetrievalResult of the current (question, combination)
    acc,            \* the accumulators, keyed by (retriever_name, generator_name)
    results,        \* self.results
    returned,       \* what run_all returned, once it has
    calls,          \* history: every retrieve / generate / judge call, in order
    ret_setup_metrics, \* setup_metrics of the retriever behind each retriever name
    at_start,       \* history: the retrievers' metrics and flags when run_all began
    \* ---- retrievers (retrievers/base.py, vector_retriever.py, bm25_retriever.py,
    \*      hybrid_retriever.py); a corpus is named by an identifier ----
    is_setup,       \* _is_setup of each retriever instance
    model_name,     \* self.model_name of each VectorRetriever instance
    chunks,         \* self.chunks of each instance: "empty" ([]) or a corpus
    index,          \* self.index / self.bm25 of each instance: what it was built from
    disk,           \* the two persisted artifacts: the index file and the chunk file
    completed,      \* history: a setup_and_time or load of the instance has completed
    last,           \* history: the last operation and how it ended
    saved,          \* history: the instance state written by the last complete save
    setup_metrics,  \* self.setup_metrics of each instance
    setup_called,   \* history: setup has been entered on the instance
    set_up_with,    \* history: the corpus of the hybrid's last completed setup
    \* ---- one corpus, set up in a sparse, a dense and a hybrid retriever ----
    corpus,         \* the chunk texts, in corpus order
    bm25_scores,    \* the BM25 score of the query for a chunk of each text
    query_sims,          \* the similarity of the query embedding to a chunk of each text
    rank_last,      \* the last retrieve call and its result
    rank_prev,      \* the retrieve call before it
    \* ---- HybridRetriever.retrieve (retrievers/hybrid_retriever.py) ----
    vector_results, \* the candidate list of the dense sub-retriever
    bm25_results,   \* the candidate list of the sparse sub-retriever
    rrf_k,          \* self.rrf_k
    fused,          \* the list retrieve returned, once it has
    partials,       \* the partial scores one candidate list has contributed so far
    \* ---- BM25Retriever._tokenize (retrievers/bm25_retriever.py) ----
    tok_text,       \* the text of a chunk or of a query
    tok_last,       \* the last _tokenize call on it and its result
    tok_prev,       \* the _tokenize call before it
    \* ---- GeminiGenerator.generate (generators/gemini_generator.py) ----
    gem_pc,         \* "idle", "calling" (inside the for loop), "returned", "raised"
    gem_prompt,     \* the prompt: the query, the contexts, its number of words
    gem_attempt,    \* the loop variable attempt
    gem_calls,      \* history: how the try block of each attempt ended
    gem_waits,      \* history: the seconds slept, one entry per sleep
    gem_result,     \* the GenerationResult returned, or the exception raised
    \* ---- DocumentProcessor.chunk_text (utils/chunker.py) ----
    ck_size,        \* self.chunk_size
    ck_overlap,     \* self.chunk_overlap
    ck_text,        \* the text argument
    ck_start,       \* the local start
    ck_chunks,      \* the local chunks
    ck_pc           \* "idle", "loop", "done"

runnerVars == <<retrievers, generators, questions, ret_is_setup, pc, q_i, c_i,
                ret_result, acc, results, returned, calls, ret_setup_metrics,
                at_start>>

retrieverVars == <<is_setup, model_name, chunks, index, disk, completed, last, saved,
                   setup_metrics, setup_called, set_up_with>>

rankVars == <<corpus, bm25_scores, query_sims, rank_last, rank_prev>>

fusionVars == <<vector_results, bm25_results, rrf_k, fused, partials>>

tokenVars == <<tok_text, tok_last, tok_prev>>

geminiVars == <<gem_pc, gem_prompt, gem_attempt, gem_calls, gem_waits, gem_result>>

chunkerVars == <<ck_size, ck_overlap, ck_text, ck_start, ck_chunks, ck_pc>>

notRunner == <<retrieverVars, rankVars, fusionVars, tokenVars, geminiVars, chunkerVars>>

notRetriever == <<runnerVars, rankVars, fusionVars, tokenVars, geminiVars, chunkerVars>>

notRank == <<runnerVars, retrieverVars, fusionVars, tokenVars, geminiVars, chunkerVars>>

notFusion == <<runnerVars, retrieverVars, rankVars, tokenVars, geminiVars, chunkerVars>>

notToken == <<runnerVars, retrieverVars, rankVars, fusionVars, geminiVars, chunkerVars>>

notGemini == <<runnerVars, retrieverVars, rankVars, fusionVars, tokenVars, chunkerVars>>

notChunker == <<runnerVars, retrieverVars, rankVars, fusionVars, tokenVars, geminiVars>>

vars == <<runnerVars, retrieverVars, rankVars, fusionVars, tokenVars, geminiVars, chunkerVars>>

----------------------------------------------------------------------------
(* Bounds of the model *)

MaxQuestions == 2

\* The longest corpus (in chunks) and the largest top_k.
MaxCorpus == 2
MaxTopK == 3

\* The longest candidate list handed to the fusion.
MaxCand == 3

\* The longest text (in characters) handed to the tokenizer.
MaxText == 3

\* The largest rrf_k given to the constructor of a HybridRetriever.
MaxRrfK == 64

\* The largest chunk_size given to the constructor of a DocumentProcessor.
MaxChunkSize == 3

----------------------------------------------------------------------------
(* Generic helpers *)

Range(s) == {s[i] : i \in DOMAIN s}

SeqsUpTo(S, n) == UNION {[1..k -> S] : k \in 0..n}

Prefixes(s) == {SubSeq(s, 1, n) : n \in 0..Len(s)}

RECURSIVE SumSeq(_)
SumSeq(s) == IF s = <<>> THEN 0 ELSE s[1] + SumSeq(Tail(s))

RECURSIVE GCD(_, _)
GCD(a, b) == IF b = 0 THEN a ELSE GCD(b, a % b)

\* Exact fractions <<numerator, denominator>> in lowest terms.
RatAdd(x, y) ==
    LET n == x[1] * y[2] + y[1] * x[2]
        d == x[2] * y[2]
        g == GCD(n, d)
    IN <<n \div g, d \div g>>

\* a / b as an exact fraction.
Frac(a, b) == LET g == GCD(a, b) IN IF g = 0 THEN <<0, b>> ELSE <<a \div g, b \div g>>

----------------------------------------------------------------------------
(* Profiler *)

\* SetupMetrics(): every field 0.0.
SetupMetrics ==
    [total_ms |-> 0, embedding_ms |-> 0, tokenizing_ms |-> 0, indexing_ms |-> 0,
     memory_peak_mb |-> 0, storage_mb |-> 0]

\* What the clock and the memory tracker report during one setup_and_time
\* call: the time of model.encode, of the index build, of the whole setup,
\* and the growth of the resident set.
QuickSetup == [embedding_ms |-> 3, indexing_ms |-> 1, total_ms |-> 5, memory_peak_mb |-> 2]
SlowSetup == [embedding_ms |-> 4, indexing_ms |-> 2, total_ms |-> 7, memory_peak_mb |-> 0]
Measurements == {QuickSetup, SlowSetup}

----------------------------------------------------------------------------
(* BenchmarkRunner *)

\* The retriever and generator names of test_eval.py, in dict order.
RetNames == <<"Vector", "BM25", "Hybrid">>
GenNames == <<"LLaMA", "Gemini">>
QuestionSet == {"qa", "qb"}

None == [set |-> FALSE, value |-> <<>>]
Some(v) == [set |-> TRUE, value |-> v]

\* combos = [(ret_name, gen_name) for ret_name in retrievers for gen_name in generators]
CombosGeneratorMajor(rets, gens) ==
    [i \in 1..(Len(rets) * Len(gens)) |->
        <<rets[((i - 1) % Len(rets)) + 1], gens[((i - 1) \div Len(rets)) + 1]>>]
Combos(rets, gens) ==
    [i \in 1..(Len(rets) * Len(gens)) |->
        <<rets[((i - 1) \div Len(gens)) + 1], gens[((i - 1) % Len(gens)) + 1]>>]

combos == Combos(retrievers, generators)

\* key = (ret_name, gen_name)
KeyRetrieverOnly(combo) == <<combo[1], generators[1]>>
Key(combo) == <<combo[1], combo[2]>>

EmptyAcc ==
    [retrieval_times |-> <<>>, generation_times |-> <<>>, token_counts |-> <<>>,
     samples |-> <<>>, per_question |-> <<>>]

\* Latencies are counted in hundredths of a millisecond; round(x, 1) keeps
\* tenths of a millisecond.
Round1(x) == ((x + 5) \div 10) * 10

\* What one retrieve_and_time / generate_and_time call can report: its
\* latency_ms and, for a generation, tokens_used.
RetrievalReadings == {[latency_ms |-> 104], [latency_ms |-> 257]}
GenerationReadings ==
    {[latency_ms |-> 1203, tokens_used |-> 0], [latency_ms |-> 868, tokens_used |-> 37]}
OneRetrievalReading == {[latency_ms |-> 104]}
OneGenerationReading == {[latency_ms |-> 1203, tokens_used |-> 0]}

\* The setup_metrics a retriever passed to the runner can hold: those of a
\* fresh instance, or of one that was set up.
SetUpWith(m) ==
    [total_ms |-> m.total_ms, embedding_ms |-> m.embedding_ms, tokenizing_ms |-> 0,
     indexing_ms |-> m.indexing_ms, memory_peak_mb |-> m.memory_peak_mb,
     storage_mb |-> 0]
NotStarted == [set |-> FALSE, setup_metrics |-> <<>>, is_setup |-> <<>>]

\* acc = {(r, g): {... "samples": [], "per_question": []} for r, _, g, _ in combos}
NewAcc == [k \in {Key(combos[i]) : i \in DOMAIN combos} |-> EmptyAcc]

\* The loop position after the body for (q, c) has run: the inner loop is over
\* the combinations, the outer one over the questions; after the last question
\* the judging loop starts (self.results = []).
NextPositionComboMajor(q, c) ==
    IF q < Len(questions) THEN [pc |-> "query", q |-> q + 1, c |-> c]
    ELSE IF c < Len(combos) THEN [pc |-> "query", q |-> 1, c |-> c + 1]
    ELSE [pc |-> "judge", q |-> q, c |-> 1]
NextPosition(q, c) ==
    IF c < Len(combos) THEN [pc |-> "query", q |-> q, c |-> c + 1]
    ELSE IF q < Len(questions) THEN [pc |-> "query", q |-> q + 1, c |-> 1]
    ELSE [pc |-> "judge", q |-> q, c |-> 1]

\* An exception raised by retrieve_and_time or generate_and_time is caught
\* nowhere in run_all: it ends the run.
SkipFailedQuery(q, c) == NextPosition(q, c)
QueryFailure(q, c) == [pc |-> "failed", q |-> q, c |-> c]

RunnerInit ==
    /\ retrievers \in Prefixes(RetNames)
    /\ generators \in Prefixes(GenNames)
    /\ questions \in SeqsUpTo(QuestionSet, MaxQuestions)
    /\ ret_is_setup \in [Range(RetNames) -> BOOLEAN]
    /\ ret_setup_metrics \in
           {sm \in [Range(RetNames) ->
                       {SetupMetrics} \cup {SetUpWith(m) : m \in Measurements}] :
               \A r \in Range(RetNames) : (sm[r] = SetupMetrics) = ~ret_is_setup[r]}
    /\ at_start = NotStarted
    /\ pc = "init"
    /\ q_i = 0
    /\ c_i = 0
    /\ ret_result = None
    /\ acc = <<>>
    /\ results = <<>>
    /\ returned = None
    /\ calls = <<>>

\* run_all up to its first external call (lines 92-105, or 132-135 when there
\* is nothing to query).
RunAll ==
    /\ pc = "init"
    /\ at_start' = [set |-> TRUE, setup_metrics |-> ret_setup_metrics,
                    is_setup |-> ret_is_setup]
    /\ acc' = NewAcc
    /\ IF Len(questions) > 0 /\ Len(combos) > 0
       THEN /\ pc' = "query" /\ q_i' = 1 /\ c_i' = 1
            /\ UNCHANGED <<results, returned>>
       ELSE /\ results' = <<>>
            /\ q_i' = Len(questions)
            /\ IF Len(combos) > 0
               THEN pc' = "judge" /\ c_i' = 1 /\ UNCHANGED returned
               ELSE pc' = "done" /\ c_i' = 0 /\ returned' = Some(<<>>)
    /\ UNCHANGED <<retrievers, generators, questions, ret_is_setup, ret_setup_metrics, ret_result, calls>>
    /\ UNCHANGED notRunner

\* ret_result = retriever.retrieve_and_time(q, top_k=self.top_k), returning.
RetrieveReturns(reading) ==
    /\ pc = "query"
    /\ ret_is_setup[combos[c_i][1]]
    /\ calls' = Append(calls, [op |-> "retrieve", q |-> q_i, c |-> c_i, ok |-> TRUE,
                               batch |-> <<>>, reading |-> reading])
    /\ ret_result' = Some(Len(calls) + 1)
    /\ pc' = "gen"
    /\ UNCHANGED <<retrievers, generators, questions, ret_is_setup, ret_setup_metrics, at_start, q_i, c_i, acc,
                   results, returned>>
    /\ UNCHANGED notRunner

\* retrieve_and_time raising: the retriever is not set up (base.py line 43), or
\* its retrieve raised.
RetrieveRaises ==
    /\ pc = "query"
    /\ calls' = Append(calls, [op |-> "retrieve", q |-> q_i, c |-> c_i, ok |-> FALSE,
                               batch |-> <<>>, reading |-> <<>>])
    /\ LET n == QueryFailure(q_i, c_i) IN
        /\ pc' = n.pc /\ q_i' = n.q /\ c_i' = n.c
        /\ results' = IF n.pc = "judge" THEN <<>> ELSE results
    /\ UNCHANGED <<retrievers, generators, questions, ret_is_setup, ret_setup_metrics, at_start, ret_result, acc,
                   returned>>
    /\ UNCHANGED notRunner

\* gen_result = generator.generate_and_time(q, ret_result.chunks), returning,
\* and the appends to the accumulators of the combination (lines 109-126).
GenerateReturns(gen_result) ==
    /\ pc = "gen"
    /\ calls' = Append(calls, [op |-> "generate", q |-> q_i, c |-> c_i, ok |-> TRUE,
                               batch |-> <<>>, reading |-> gen_result])
    /\ LET key == Key(combos[c_i])
           ret_latency_ms == calls[ret_result.value].reading.latency_ms
           sample == [question |-> questions[q_i], answer |-> Len(calls) + 1,
                      contexts |-> ret_result.value]
           record == [question |-> questions[q_i],
                      retrieval_ms |-> Round1(ret_latency_ms),
                      generation_ms |-> Round1(gen_result.latency_ms),
                      tokens |-> gen_result.tokens_used]
       IN acc' = [acc EXCEPT ![key] =
                    [retrieval_times |-> Append(@.retrieval_times, ret_latency_ms),
                     generation_times |->
                         Append(@.generation_times, gen_result.latency_ms),
                     token_counts |-> Append(@.token_counts, gen_result.tokens_used),
                     samples |-> Append(@.samples, sample),
                     per_question |-> Append(@.per_question, record)]]
    /\ LET n == NextPosition(q_i, c_i) IN
        /\ pc' = n.pc /\ q_i' = n.q /\ c_i' = n.c
        /\ results' = IF n.pc = "judge" THEN <<>> ELSE results
    /\ ret_result' = None
    /\ UNCHANGED <<retrievers, generators, questions, ret_is_setup, ret_setup_metrics, at_start, returned>>
    /\ UNCHANGED notRunner

GenerateRaises ==
    /\ pc = "gen"
    /\ calls' = Append(calls, [op |-> "generate", q |-> q_i, c |-> c_i, ok |-> FALSE,
                               batch |-> <<>>, reading |-> <<>>])
    /\ LET n == QueryFailure(q_i, c_i) IN
        /\ pc' = n.pc /\ q_i' = n.q /\ c_i' = n.c
        /\ results' = IF n.pc = "judge" THEN <<>> ELSE results
    /\ ret_result' = None
    /\ UNCHANGED <<retrievers, generators, questions, ret_is_setup, ret_setup_metrics, at_start, acc, returned>>
    /\ UNCHANGED notRunner

\* setup_metrics=retriever.setup_metrics
SetupMetricsRemeasured(ret_name) == SetupMetrics
SetupMetricsOf(ret_name) == ret_setup_metrics[ret_name]

\* avg_total_ms=(sum(rt) + sum(gt)) / n
AvgTotalOfRetrieval(rt, gt, n) == Frac(SumSeq(rt), n)
AvgTotal(rt, gt, n) == Frac(SumSeq(rt) + SumSeq(gt), n)

\* ComboResult(...) of lines 143-153, with n = len(self.questions).
ComboResult(combo, data) ==
    LET n == Len(questions)
        rt == data.retrieval_times
        gt == data.generation_times
    IN [retriever_name |-> combo[1], generator_name |-> combo[2],
        setup_metrics |-> SetupMetricsOf(combo[1]),
        avg_retrieval_ms |-> Frac(SumSeq(rt), n),
        avg_generation_ms |-> Frac(SumSeq(gt), n),
        avg_total_ms |-> AvgTotal(rt, gt, n),
        avg_tokens |-> Frac(SumSeq(data.token_counts), n),
        per_question |-> data.per_question]

\* x / n yields a value unless n is 0, where it raises ZeroDivisionError.
DividesByZero(n) == TRUE
Divides(n) == n # 0

\* avg_score, _ = self.judge.evaluate_batch(data["samples"]) returning, the
\* ComboResult built and appended; after the last combination run_all returns.
\* evaluate_batch divides by len(individual_scores) and ComboResult(...) by n:
\* neither yields a value for an empty batch.
JudgeReturns ==
    /\ pc = "judge"
    /\ LET data == acc[Key(combos[c_i])] IN
        /\ Divides(Len(data.samples))
        /\ Divides(Len(questions))
        /\ calls' = Append(calls, [op |-> "judge", q |-> 0, c |-> c_i, ok |-> TRUE,
                                   batch |-> data.samples, reading |-> <<>>])
        /\ results' = Append(results, ComboResult(combos[c_i], data))
    /\ IF c_i < Len(combos)
       THEN pc' = "judge" /\ c_i' = c_i + 1 /\ UNCHANGED returned
       ELSE pc' = "done" /\ c_i' = c_i /\ returned' = Some(results')
    /\ UNCHANGED <<retrievers, generators, questions, ret_is_setup, ret_setup_metrics, at_start, q_i, ret_result, acc>>
    /\ UNCHANGED notRunner

\* evaluate_batch raising (a provider failure, a malformed judge response, or
\* the division by zero of an empty batch): run_all ends with the exception.
JudgeRaises ==
    /\ pc = "judge"
    /\ calls' = Append(calls, [op |-> "judge", q |-> 0, c |-> c_i, ok |-> FALSE,
                               batch |-> acc[Key(combos[c_i])].samples,
                               reading |-> <<>>])
    /\ pc' = "failed"
    /\ UNCHANGED <<retrievers, generators, questions, ret_is_setup, ret_setup_metrics, at_start, q_i, c_i,
                   ret_result, acc, results, returned>>
    /\ UNCHANGED notRunner

RunnerNext ==
    \/ RunAll
    \/ \E reading \in OneRetrievalReading : RetrieveReturns(reading)
    \/ RetrieveRaises
    \/ \E gen_result \in OneGenerationReading : GenerateReturns(gen_result)
    \/ GenerateRaises
    \/ JudgeReturns
    \/ JudgeRaises


\* The runner left alone.
RunnerIdle ==
    /\ retrievers = <<>> /\ generators = <<>> /\ questions = <<>>
    /\ ret_is_setup = [r \in Range(RetNames) |-> FALSE]
    /\ pc = "init" /\ q_i = 0 /\ c_i = 0 /\ ret_result = None /\ acc = <<>>
    /\ results = <<>> /\ returned = None /\ calls = <<>>
    /\ ret_setup_metrics = [r \in Range(RetNames) |-> SetupMetrics]
    /\ at_start = NotStarted

----------------------------------------------------------------------------
(* Retrievers *)

\* The instances of test_e2e.py: a BM25Retriever, a VectorRetriever, the
\* HybridRetriever built on those two, and a second VectorRetriever.
Insts == {"bm25", "vector", "vector2", "hybrid"}
VectorInsts == {"vector", "vector2"}
SetupInsts == {"bm25", "vector", "hybrid"}
CorpusIds == {"c1", "c2"}
Models == {"m1", "m2"}

NoIndex == [corpus |-> "none", model |-> "none"]
NoOp == [op |-> "none", inst |-> "none", raised |-> FALSE, invoked |-> FALSE,
         was_setup |-> FALSE]
NotSaved == [set |-> FALSE, inst |-> "none", index |-> NoIndex, chunks |-> "empty",
             model |-> "none", ready |-> FALSE]

\* BaseRetriever.__init__, VectorRetriever.__init__, BM25Retriever.__init__,
\* HybridRetriever.__init__: nothing set up, nothing on disk.
Constructed ==
    /\ is_setup = [i \in Insts |-> FALSE]
    /\ chunks = [i \in Insts |-> "empty"]
    /\ index = [i \in Insts |-> NoIndex]
    /\ completed = [i \in Insts |-> FALSE]
    /\ last = NoOp
    /\ saved = NotSaved
    /\ setup_metrics = [i \in Insts |-> SetupMetrics]
    /\ setup_called = [i \in Insts |-> FALSE]
    /\ set_up_with = "empty"

\* model_name: str = "all-MiniLM-L6-v2" unless the caller names another model.
DefaultModels == [i \in VectorInsts |-> "m1"]

RetrieverIdle ==
    /\ Constructed
    /\ model_name = DefaultModels
    /\ disk = [index |-> NoIndex, chunks |-> "none"]

\* The artifacts a run may find at the two paths before it starts: none, a
\* matching pair, or an index and a chunk list of different corpora.
DiskAtStart ==
    {[index |-> NoIndex, chunks |-> "none"],
     [index |-> [corpus |-> "c1", model |-> "m1"], chunks |-> "c1"],
     [index |-> [corpus |-> "c1", model |-> "m1"], chunks |-> "c2"]}

RetrieverConstructed ==
    /\ Constructed
    /\ model_name = DefaultModels
    /\ disk \in DiskAtStart

\* Where a setup can raise. BM25Retriever.setup: tokenizing a chunk, or
\* BM25Okapi(...); VectorRetriever.setup: model.encode, or building the index;
\* HybridRetriever.setup: inside either sub-retriever's setup.
FailPoints(i) ==
    IF i = "hybrid" THEN {"none", "vector", "bm25"} ELSE {"none", "build"}

\* BM25Retriever.setup / VectorRetriever.setup on instance i, raising at `at`
\* ("none": returning): self.chunks is assigned first, the index last.
SubSetupChunks(ch, i, c) == [ch EXCEPT ![i] = c]
SubSetupIndex(ix, i, c, at) ==
    IF at = "none"
    THEN [ix EXCEPT ![i] = [corpus |-> c,
                            model |-> IF i \in VectorInsts THEN model_name[i] ELSE "none"]]
    ELSE ix

\* setup(chunks) of instance i: its effect on self.chunks and the indexes.
\* HybridRetriever.setup assigns its own chunks, then runs vector.setup, then
\* bm25.setup.
SetupChunks(i, c, at) ==
    IF i # "hybrid" THEN SubSetupChunks(chunks, i, c)
    ELSE LET own == [chunks EXCEPT !["hybrid"] = c]
             v == SubSetupChunks(own, "vector", c)
         IN IF at = "vector" THEN v ELSE SubSetupChunks(v, "bm25", c)

SetupIndex(i, c, at) ==
    IF i # "hybrid" THEN SubSetupIndex(index, i, c, at)
    ELSE IF at = "vector" THEN index
    ELSE LET v == SubSetupIndex(index, "vector", c, "none")
         IN SubSetupIndex(v, "bm25", c, at)

\* VectorRetriever.setup on instance i: embedding_ms after model.encode,
\* indexing_ms after the index is built. A setup that raises has written
\* embedding_ms (encoded = TRUE) or nothing.
VectorSetupMetrics(sm, i, done, encoded, m) ==
    IF done
    THEN [sm EXCEPT ![i].embedding_ms = m.embedding_ms,
                    ![i].indexing_ms = m.indexing_ms]
    ELSE IF encoded THEN [sm EXCEPT ![i].embedding_ms = m.embedding_ms]
    ELSE sm

\* BM25Retriever.setup writes no field of setup_metrics.
BM25SetupMetrics(sm, i) == sm

\* Lines 42-46 of HybridRetriever.setup.
AggregateBM25Only(sm) ==
    [sm EXCEPT !["hybrid"].embedding_ms = sm["bm25"].embedding_ms,
               !["hybrid"].indexing_ms = sm["bm25"].indexing_ms,
               !["hybrid"].tokenizing_ms = sm["bm25"].tokenizing_ms]
Aggregate(sm) ==
    [sm EXCEPT !["hybrid"].embedding_ms = sm["vector"].embedding_ms,
               !["hybrid"].indexing_ms =
                   sm["vector"].indexing_ms + sm["bm25"].indexing_ms,
               !["hybrid"].tokenizing_ms = sm["bm25"].tokenizing_ms]

\* setup(chunks) of instance i: its effect on the setup_metrics of the
\* instances.
SetupWrites(i, at, encoded, m) ==
    IF i = "bm25" THEN BM25SetupMetrics(setup_metrics, i)
    ELSE IF i # "hybrid"
    THEN VectorSetupMetrics(setup_metrics, i, at = "none", encoded, m)
    ELSE LET v == VectorSetupMetrics(setup_metrics, "vector", at # "vector",
                                     encoded, m)
         IN IF at = "vector" THEN v
            ELSE IF at = "none" THEN Aggregate(BM25SetupMetrics(v, "bm25"))
            ELSE BM25SetupMetrics(v, "bm25")

\* The instances whose setup a setup(chunks) of instance i enters.
SetupEntered(i, at) ==
    IF i # "hybrid" THEN {i}
    ELSE IF at = "vector" THEN {"hybrid", "vector"}
    ELSE {"hybrid", "vector", "bm25"}

\* Whether a setup of i raising at `at` can have passed model.encode.
Encoded(i, at) ==
    IF at = "none" THEN {TRUE}
    ELSE IF (i \in VectorInsts /\ at = "build") \/ (i = "hybrid" /\ at = "vector")
    THEN BOOLEAN
    ELSE IF i = "hybrid" THEN {TRUE} ELSE {FALSE}

\* MemoryTracker.__exit__ returns None: an exception raised inside the with
\* block is not suppressed.
MemoryTrackerExitSuppresses(raised) == raised
MemoryTracker__exit__(raised) == FALSE

\* BaseRetriever.setup_and_time(chunks): total_ms is written when setup has
\* returned, memory_peak_mb and the ready flag after the with block.
SetupAndTime(i, c, at, encoded, m) ==
    LET raised == at # "none"
        suppressed == raised /\ MemoryTracker__exit__(raised)
        written == SetupWrites(i, at, encoded, m)
        timed == IF raised THEN written
                 ELSE [written EXCEPT ![i].total_ms = m.total_ms]
    IN
    /\ setup_metrics' = IF raised /\ ~suppressed THEN timed
                        ELSE [timed EXCEPT ![i].memory_peak_mb = m.memory_peak_mb]
    /\ setup_called' = [j \in Insts |-> setup_called[j] \/ j \in SetupEntered(i, at)]
    /\ set_up_with' = IF i = "hybrid" /\ ~raised THEN c ELSE set_up_with
    /\ chunks' = SetupChunks(i, c, at)
    /\ index' = SetupIndex(i, c, at)
    /\ is_setup' = IF raised /\ ~suppressed THEN is_setup
                   ELSE [is_setup EXCEPT ![i] = TRUE]
    /\ completed' = IF raised THEN completed ELSE [completed EXCEPT ![i] = TRUE]
    /\ last' = [op |-> "setup_and_time", inst |-> i, raised |-> raised,
                invoked |-> TRUE, was_setup |-> is_setup[i]]
    /\ UNCHANGED <<model_name, disk, saved>>
    /\ UNCHANGED notRetriever

\* if not self._is_setup: raise RuntimeError(...)
CheckSetupSkipped(i) == TRUE
CheckSetup(i) == is_setup[i]

\* Whether retrieve of instance i has an index to search at all (self.index /
\* self.bm25 is not None; the hybrid searches both sub-retrievers).
HasIndex(i) ==
    IF i = "hybrid"
    THEN index["vector"] # NoIndex /\ index["bm25"] # NoIndex
    ELSE index[i] # NoIndex

\* BaseRetriever.retrieve_and_time(query, top_k): raises when the instance is
\* not set up, else calls retrieve, which returns or raises.
RetrieveAndTime(i, raises) ==
    /\ CheckSetup(i) => (HasIndex(i) \/ raises)
    /\ last' = [op |-> "retrieve_and_time", inst |-> i,
                raised |-> (~CheckSetup(i) \/ raises),
                invoked |-> CheckSetup(i), was_setup |-> is_setup[i]]
    /\ UNCHANGED <<is_setup, chunks, index, model_name, disk, completed, saved,
                   setup_metrics, setup_called, set_up_with>>
    /\ UNCHANGED notRetriever

\* VectorRetriever.load(index_path, chunks_path): read_index, then
\* pickle.load, then _is_setup = True.
LoadFailPoints == {"none", "read_index", "pickle"}

LoadLeavesNotReady(i, at) ==
    /\ disk.index = NoIndex => at = "read_index"
    /\ disk.chunks = "none" => at # "none"
    /\ index' = IF at = "read_index" THEN index ELSE [index EXCEPT ![i] = disk.index]
    /\ chunks' = IF at = "none" THEN [chunks EXCEPT ![i] = disk.chunks] ELSE chunks
    /\ completed' = IF at = "none" THEN [completed EXCEPT ![i] = TRUE] ELSE completed
    /\ last' = [op |-> "load", inst |-> i, raised |-> at # "none", invoked |-> TRUE,
                was_setup |-> is_setup[i]]
    /\ UNCHANGED <<is_setup, model_name, disk, saved, setup_metrics, setup_called,
                   set_up_with>>
    /\ UNCHANGED notRetriever
LoadKeepsChunks(i, at) ==
    /\ disk.index = NoIndex => at = "read_index"
    /\ disk.chunks = "none" => at # "none"
    /\ index' = IF at = "read_index" THEN index ELSE [index EXCEPT ![i] = disk.index]
    /\ is_setup' = IF at = "none" THEN [is_setup EXCEPT ![i] = TRUE] ELSE is_setup
    /\ completed' = IF at = "none" THEN [completed EXCEPT ![i] = TRUE] ELSE completed
    /\ last' = [op |-> "load", inst |-> i, raised |-> at # "none", invoked |-> TRUE,
                was_setup |-> is_setup[i]]
    /\ UNCHANGED <<model_name, chunks, disk, saved, setup_metrics, setup_called,
                   set_up_with>>
    /\ UNCHANGED notRetriever
Load(i, at) ==
    /\ disk.index = NoIndex => at = "read_index"
    /\ disk.chunks = "none" => at # "none"
    /\ index' = IF at = "read_index" THEN index ELSE [index EXCEPT ![i] = disk.index]
    /\ chunks' = IF at = "none" THEN [chunks EXCEPT ![i] = disk.chunks] ELSE chunks
    /\ is_setup' = IF at = "none" THEN [is_setup EXCEPT ![i] = TRUE] ELSE is_setup
    /\ completed' = IF at = "none" THEN [completed EXCEPT ![i] = TRUE] ELSE completed
    /\ last' = [op |-> "load", inst |-> i, raised |-> at # "none", invoked |-> TRUE,
                was_setup |-> is_setup[i]]
    /\ UNCHANGED <<model_name, disk, saved, setup_metrics, setup_called,
                   set_up_with>>
    /\ UNCHANGED notRetriever


\* VectorRetriever.save(index_path, chunks_path): faiss.write_index, then
\* open(chunks_path, "wb"), then pickle.dump. A dump that fails leaves a chunk
\* file that cannot be loaded.
SaveFailPoints == {"none", "write_index", "open", "dump"}

Save(i, at) ==
    /\ index[i] = NoIndex => at = "write_index"
    /\ disk' = IF at = "write_index" THEN disk
               ELSE [index |-> index[i],
                     chunks |-> IF at = "none" THEN chunks[i]
                                ELSE IF at = "open" THEN disk.chunks ELSE "none"]
    /\ saved' = IF at = "write_index" THEN saved
                ELSE IF at = "none"
                     THEN [set |-> TRUE, inst |-> i, index |-> index[i],
                           chunks |-> chunks[i], model |-> model_name[i],
                           ready |-> is_setup[i]]
                     ELSE NotSaved
    /\ last' = [op |-> "save", inst |-> i, raised |-> at # "none", invoked |-> TRUE,
                was_setup |-> is_setup[i]]
    /\ UNCHANGED <<is_setup, model_name, chunks, index, completed, setup_metrics,
                   setup_called, set_up_with>>
    /\ UNCHANGED notRetriever

----------------------------------------------------------------------------
(* Dense and sparse retrieval as functions of an instance's state *)

\* The positions 1..n of a list of keys in descending key order, equal keys in
\* their original order: sorted(range(n), key=..., reverse=True), and the order
\* in which an exact flat index reports equal similarities.
\* gt[i, j] tells whether the key at position i is greater than the one at j.
StableDescTiesReversed(n, gt) ==
    [p \in 1..n |->
        CHOOSE i \in 1..n :
            p = 1 + Cardinality({j \in 1..n : gt[j, i]})
                  + Cardinality({j \in (i + 1)..n : ~gt[j, i] /\ ~gt[i, j]})]
StableDesc(n, gt) ==
    [p \in 1..n |->
        CHOOSE i \in 1..n :
            p = 1 + Cardinality({j \in 1..n : gt[j, i]})
                  + Cardinality({j \in 1..(i - 1) : ~gt[j, i] /\ ~gt[i, j]})]

Min(a, b) == IF a < b THEN a ELSE b

\* scores, indices = self.index.search(query_embedding, top_k): the 0-based
\* positions of the top_k stored vectors by descending similarity, and -1 in
\* every slot the index could not fill.
Search(sims, top_k) ==
    LET n == Len(sims)
        GtSim == [i \in 1..n, j \in 1..n |-> sims[i] > sims[j]]
        order == StableDesc(n, GtSim)
    IN [p \in 1..top_k |-> IF p <= n THEN order[p] - 1 ELSE -1]

Raises == <<"raises">>

\* Chunk texts, corpora (Chunk ids are unique within a corpus, texts need not
\* be), and the similarity levels an embedding can give two texts.
Texts == {"A", "B"}
Corpora == SeqsUpTo(Texts, MaxCorpus) \ {<<>>}
SimLevels == {0, 1}
Sims == [Texts -> SimLevels]

\* [self.chunks[i].text for i in indices[0] if i < len(self.chunks)], where
\* texts is self.chunks: a negative i counts from the end of the list, and
\* raises IndexError on an empty one.
SelectTexts(indices, texts) ==
    LET kept == SelectSeq(indices, LAMBDA i : i < Len(texts)) IN
    IF \E p \in DOMAIN kept : kept[p] < 0 /\ Len(texts) + kept[p] < 0 THEN Raises
    ELSE [p \in DOMAIN kept |->
            IF kept[p] >= 0 THEN texts[kept[p] + 1] ELSE texts[Len(texts) + kept[p] + 1]]

\* VectorRetriever.retrieve(query, top_k) of an instance whose self.index holds
\* one vector per text of `indexed` and whose self.chunks is `texts`; sim gives
\* the similarity of the query embedding to the stored vector of a text.
VectorRetrieve(has_index, indexed, texts, sim, top_k) ==
    IF ~has_index THEN Raises
    ELSE SelectTexts(Search([p \in DOMAIN indexed |-> sim[indexed[p]]], top_k), texts)

----------------------------------------------------------------------------
(* Python floats: IEEE 754 binary64, round to nearest, ties to even.  A      *)
(* positive float is <<s, hi, lo>>: the value (hi * 2^26 + lo) * 2^(-s) with *)
(* a 53-bit significand, 2^26 <= hi < 2^27 and 0 <= lo < 2^26.               *)

Two25 == 2^25
Two26 == 2^26
Two27 == 2^27

\* The least p with 2^p >= n.
RECURSIVE CeilLog2From(_, _, _)
CeilLog2From(n, p, pow) == IF pow >= n THEN p ELSE CeilLog2From(n, p + 1, 2 * pow)
CeilLog2(n) == CeilLog2From(n, 0, 1)

\* `count` more quotient bits of a long division by n with remainder r so far:
\* <<the bits as a number, the remainder left>>.
RECURSIVE DivBits(_, _, _, _)
DivBits(q, r, n, count) ==
    IF count = 0 THEN <<q, r>>
    ELSE IF 2 * r >= n THEN DivBits(2 * q + 1, 2 * r - n, n, count - 1)
         ELSE DivBits(2 * q, 2 * r, n, count - 1)

\* A 53-bit significand <<hi, lo>> at scale s, rounded with the guard bit g and
\* the sticky bit st of what lies below it.
RoundEven(s, hi, lo, g, st) ==
    IF g = 1 /\ (st = 1 \/ lo % 2 = 1)
    THEN IF lo + 1 < Two26 THEN <<s, hi, lo + 1>>
         ELSE IF hi + 1 < Two27 THEN <<s, hi + 1, 0>>
         ELSE <<s - 1, Two26, 0>>
    ELSE <<s, hi, lo>>

\* 1 / n for an int n >= 1 (true division of two ints: correctly rounded).
Recip(n) ==
    LET p == CeilLog2(n)
        skip == IF p = 0 THEN <<1, 0>> ELSE DivBits(0, 1, n, p - 1)
        top == IF p = 0 THEN DivBits(1, 0, n, 26) ELSE DivBits(0, skip[2], n, 27)
        low == DivBits(0, top[2], n, 26)
        grd == DivBits(0, low[2], n, 1)
    IN RoundEven(52 + p, top[1], low[1], grd[1], IF grd[2] = 0 THEN 0 ELSE 1)

\* rrf_k: int = 60
DefaultRrfK == 60

\* 1 / n for the denominators rrf_k + rank + 1 of a fusion with the default
\* rrf_k or a smaller one (a candidate list has at most top_k * 3 entries),
\* computed once; any other one is computed when it is met.
Reciprocals == [n \in 1..(DefaultRrfK + 3 * MaxTopK) |-> Recip(n)]

OneOver(n) == IF n \in DOMAIN Reciprocals THEN Reciprocals[n] ELSE Recip(n)

\* 1 / (self.rrf_k + rank + 1): what the chunk at 0-based position rank of one
\* candidate list receives.
ContributionOneBased(k, rank) == OneOver(k + rank)
Contribution(k, rank) == OneOver(k + rank + 1)

\* <<hi, lo, g, st>> shifted right by d bits, the bits shifted out kept as the
\* guard bit and the sticky bit.
RECURSIVE ShiftRight(_, _, _, _, _)
ShiftRight(hi, lo, g, st, d) ==
    IF d = 0 THEN <<hi, lo, g, st>>
    ELSE IF hi = 0 /\ lo = 0 THEN <<0, 0, 0, IF g = 1 \/ st = 1 THEN 1 ELSE 0>>
    ELSE ShiftRight(hi \div 2, (hi % 2) * Two25 + (lo \div 2), lo % 2,
                    IF g = 1 \/ st = 1 THEN 1 ELSE 0, d - 1)

\* x + y for positive floats.
FloatAdd(x, y) ==
    LET a == IF x[1] <= y[1] THEN x ELSE y
        b == IF x[1] <= y[1] THEN y ELSE x
        sh == ShiftRight(b[2], b[3], 0, 0, b[1] - a[1])
        lo == a[3] + sh[2]
        hi == a[2] + sh[1] + (lo \div Two26)
        l == lo % Two26
    IN IF hi < Two27 THEN RoundEven(a[1], hi, l, sh[3], sh[4])
       ELSE RoundEven(a[1] - 1, hi \div 2, (hi % 2) * Two25 + (l \div 2), l % 2,
                      IF sh[3] = 1 \/ sh[4] = 1 THEN 1 ELSE 0)

\* x > y for positive floats.
FloatGt(x, y) ==
    \/ x[1] < y[1]
    \/ x[1] = y[1] /\ x[2] > y[2]
    \/ x[1] = y[1] /\ x[2] = y[2] /\ x[3] > y[3]

----------------------------------------------------------------------------
(* Sparse retrieval and reciprocal-rank fusion *)

\* BM25Retriever.retrieve(query, top_k): scores has one score per indexed
\* chunk, texts is self.chunks; self.chunks[i] raises IndexError past its end.
BM25Retrieve(scores, texts, top_k) ==
    LET n == Len(scores)
        GtScore == [i \in 1..n, j \in 1..n |-> scores[i] > scores[j]]
        top_indices == SubSeq(StableDesc(n, GtScore), 1, Min(top_k, n))
    IN IF \E p \in DOMAIN top_indices : top_indices[p] > Len(texts) THEN Raises
       ELSE [p \in DOMAIN top_indices |-> texts[top_indices[p]]]

\* rrf_scores[chunk] = rrf_scores.get(chunk, 0) + 1 / (self.rrf_k + rank + 1)
\* on a dict kept as the list of its <<key, value>> items in insertion order.
PutAppends(scores, chunk, k, rank) ==
    Append(scores, <<chunk, Contribution(k, rank)>>)
Put(scores, chunk, k, rank) ==
    IF \E i \in DOMAIN scores : scores[i][1] = chunk
    THEN LET i == CHOOSE i \in DOMAIN scores : scores[i][1] = chunk
         IN [scores EXCEPT ![i] = <<chunk, FloatAdd(scores[i][2], Contribution(k, rank))>>]
    ELSE Append(scores, <<chunk, Contribution(k, rank)>>)

\* for rank, chunk in enumerate(results): ...   (from list position p on)
RECURSIVE AddRanks(_, _, _, _)
AddRanks(scores, list, p, k) ==
    IF p > Len(list) THEN scores
    ELSE AddRanks(Put(scores, list[p], k, p - 1), list, p + 1, k)

\* Lines 65-80 of HybridRetriever.retrieve: the score dict of both candidate
\* lists, sorted by score descending (a stable sort), cut to top_k.
RrfScores(v, b, k) == AddRanks(AddRanks(<<>>, v, 1, k), b, 1, k)

\* The chunk texts of sorted_chunks (lines 74-78), before the cut to top_k.
SortedChunks(v, b, k) ==
    LET scores == RrfScores(v, b, k)
        n == Len(scores)
        GtRrf == [i \in 1..n, j \in 1..n |-> FloatGt(scores[i][2], scores[j][2])]
        order == StableDesc(n, GtRrf)
    IN [p \in 1..n |-> scores[order[p]][1]]

\* sorted_chunks[:top_k]
Cut(sorted_chunks, top_k) == SubSeq(sorted_chunks, 1, Min(top_k, Len(sorted_chunks)))

\* return [chunk for chunk, score in sorted_chunks[:top_k]]
Fuse(v, b, k, top_k) == Cut(SortedChunks(v, b, k), top_k)

\* candidate_k = min(top_k * 3, len(self.chunks))
CandidateK(top_k, n) == Min(top_k * 3, n)

\* The top_k HybridRetriever.retrieve(query, top_k) hands to
\* self.vector.retrieve and to self.bm25.retrieve; texts is the hybrid's own
\* self.chunks.
HybridRequests(texts, top_k) ==
    LET candidate_k == CandidateK(top_k, Len(texts))
    IN [vector |-> candidate_k, bm25 |-> candidate_k]

\* HybridRetriever.retrieve(query, top_k) over sub-retrievers set up with the
\* same corpus as the hybrid.
HybridRetrieve(texts, sim, scores, k, top_k) ==
    LET requests == HybridRequests(texts, top_k)
        v == VectorRetrieve(TRUE, texts, texts, sim, requests.vector)
        b == BM25Retrieve(scores, texts, requests.bm25)
    IN Fuse(v, b, k, top_k)

Strategies == {"sparse", "dense", "hybrid"}

NoCall == [strategy |-> "none", top_k |-> 0, chunks |-> <<>>]

RankIdle ==
    /\ corpus = <<>> /\ bm25_scores = <<>> /\ query_sims = <<>>
    /\ rank_last = NoCall /\ rank_prev = NoCall

\* A corpus, set up in a BM25Retriever, a VectorRetriever and a
\* HybridRetriever (rrf_k = 60), and a query.
RankSetUp ==
    /\ corpus \in Corpora
    /\ bm25_scores \in Sims
    /\ query_sims \in Sims
    /\ rank_last = NoCall
    /\ rank_prev = NoCall

\* retrieve_and_time(query, top_k).chunks of the retriever of one strategy.
Retrieve(strategy, top_k) ==
    /\ rank_prev' = rank_last
    /\ rank_last' =
         [strategy |-> strategy, top_k |-> top_k,
          chunks |->
            IF strategy = "sparse"
            THEN BM25Retrieve([p \in DOMAIN corpus |-> bm25_scores[corpus[p]]],
                              corpus, top_k)
            ELSE IF strategy = "dense"
            THEN VectorRetrieve(TRUE, corpus, corpus, query_sims, top_k)
            ELSE HybridRetrieve(corpus, query_sims,
                                [p \in DOMAIN corpus |-> bm25_scores[corpus[p]]],
                                DefaultRrfK, top_k)]
    /\ UNCHANGED <<corpus, bm25_scores, query_sims>>
    /\ UNCHANGED notRank

FusionTexts == {"A", "B", "C", "D", "E", "F"}

NotFused == [set |-> FALSE, top_k |-> 0, ranking |-> <<>>, chunks |-> <<>>]

FusionIdle ==
    /\ vector_results = <<>> /\ bm25_results = <<>> /\ rrf_k = DefaultRrfK
    /\ fused = NotFused
    /\ partials = <<>>

\* Two sub-retrievers that rank the same six chunks of distinct texts: the
\* dense ranking names the texts, the sparse ranking is any order of them.
RankedCandidates ==
    /\ vector_results = <<"A", "B", "C", "D", "E", "F">>
    /\ bm25_results \in {b \in [1..6 -> FusionTexts] : Range(b) = FusionTexts}
    /\ rrf_k \in {9, DefaultRrfK}
    /\ fused = NotFused
    /\ partials = <<>>

\* Any two candidate lists of texts, as two sub-retrievers that need not
\* share a corpus return them (a text can repeat: chunks can share a text),
\* and an rrf_k given to the constructor.
CandTexts == {"A", "B", "C"}
RrfKs == {1, DefaultRrfK}

AnyCandidates ==
    /\ vector_results \in SeqsUpTo(CandTexts, MaxCand)
    /\ bm25_results \in SeqsUpTo(CandTexts, MaxCand)
    /\ rrf_k \in RrfKs
    /\ fused = NotFused
    /\ partials = <<>>

\* The fusion of HybridRetriever.retrieve on the two candidate lists.
HybridFuse(top_k) ==
    /\ ~fused.set
    /\ LET sorted_chunks == SortedChunks(vector_results, bm25_results, rrf_k)
       IN fused' = [set |-> TRUE, top_k |-> top_k, ranking |-> sorted_chunks,
                    chunks |-> Cut(sorted_chunks, top_k)]
    /\ UNCHANGED <<vector_results, bm25_results, rrf_k, partials>>
    /\ UNCHANGED notFusion

\* A HybridRetriever constructed with any rrf_k, before a candidate list is
\* scanned.
AnyRrfK ==
    /\ vector_results = <<>> /\ bm25_results = <<>>
    /\ rrf_k \in 1..MaxRrfK
    /\ fused = NotFused
    /\ partials = <<>>

\* One turn of `for rank, chunk in enumerate(results)`: the partial score of
\* the next position of a candidate list of at most top_k * 3 entries.
Contribute ==
    /\ Len(partials) < 3 * MaxTopK
    /\ partials' = Append(partials, Contribution(rrf_k, Len(partials)))
    /\ UNCHANGED <<vector_results, bm25_results, rrf_k, fused>>
    /\ UNCHANGED notFusion

----------------------------------------------------------------------------
(* BM25Retriever._tokenize *)

\* Characters: a lower-case letter, an upper-case letter, a digit, a space,
\* an underscore, the accented capital U+00C9 and the dotted capital I U+0130,
\* whose lower-case form is the two characters "i" and a combining dot U+0307.
\* The characters outside ASCII are written by name.
Chars == {"a", "Z", "7", " ", "_", "E-acute", "I-dot"}

\* str.lower() of one character.
LowerChar(ch) ==
    IF ch = "Z" THEN <<"z">>
    ELSE IF ch = "E-acute" THEN <<"e-acute">>
    ELSE IF ch = "I-dot" THEN <<"i", "combining-dot">>
    ELSE <<ch>>

\* text = text.lower()
RECURSIVE Lower(_)
Lower(text) == IF text = <<>> THEN <<>> ELSE LowerChar(text[1]) \o Lower(Tail(text))

\* The characters of the class [a-z0-9] among those a lower-cased text holds.
InClass(ch) == ch \in {"a", "z", "i", "7"}

\* re.split(r"[^a-z0-9]+", text) from position p on: cur is the piece being
\* read, in_sep tells that p follows a character outside the class. A run of
\* characters outside the class ends one piece, which can be empty.
RECURSIVE ReSplit(_, _, _, _)
ReSplit(text, p, cur, in_sep) ==
    IF p > Len(text) THEN <<cur>>
    ELSE IF InClass(text[p]) THEN ReSplit(text, p + 1, Append(cur, text[p]), FALSE)
    ELSE IF in_sep THEN ReSplit(text, p + 1, cur, TRUE)
    ELSE <<cur>> \o ReSplit(text, p + 1, <<>>, TRUE)

\* return [t for t in tokens if t]
NonEmpty(t) == t # <<>>

\* BM25Retriever._tokenize(text).
TokenizeKeepsEmpty(text) == ReSplit(Lower(text), 1, <<>>, FALSE)
Tokenize(text) == SelectSeq(ReSplit(Lower(text), 1, <<>>, FALSE), NonEmpty)

NotTokenized == [role |-> "none", tokens |-> <<>>]

TokenIdle == tok_text = <<>> /\ tok_last = NotTokenized /\ tok_prev = NotTokenized

AnyText ==
    /\ tok_text \in SeqsUpTo(Chars, MaxText)
    /\ tok_last = NotTokenized
    /\ tok_prev = NotTokenized

\* self._tokenize(c.text) of setup (role "chunk"), self._tokenize(query) of
\* retrieve (role "query").
TokenizeAs(role) ==
    /\ tok_prev' = tok_last
    /\ tok_last' = [role |-> role, tokens |-> Tokenize(tok_text)]
    /\ UNCHANGED tok_text
    /\ UNCHANGED notToken

----------------------------------------------------------------------------
(* GeminiGenerator.generate *)

\* The words of the prompt template around the context block and the query.
TemplateWords == 27

Queries == {<<"q">>, <<"what", "is", "x">>}
Contexts == {<<"c">>, <<"two", "words">>}

\* len(prompt.split()): "\n\n---\n\n".join(contexts) adds the word "---"
\* between two contexts.
PromptWords(query, contexts) ==
    TemplateWords + Len(query)
        + SumSeq([p \in DOMAIN contexts |-> Len(contexts[p])])
        + (IF contexts = <<>> THEN 0 ELSE Len(contexts) - 1)

\* response.text: an answer, or None for a response without text.
NoText == <<"None">>
Answers == {<<>>, <<"yes">>, <<"it", "is", "x">>, NoText}

\* The exceptions generate_content raises, as str(e): a rate limit, a server
\* error, a timeout.
ProviderErrors == {"429 RESOURCE_EXHAUSTED", "503 UNAVAILABLE", "timed out"}

\* "429" in str(e)
Has429(e) == e = "429 RESOURCE_EXHAUSTED"

\* from time import time: the name time is the function time.time, which has
\* no attribute sleep.
TimeIsModule == FALSE

\* None.split(), and time.sleep on the function time.time.
NoSplit == "'NoneType' object has no attribute 'split'"
NoSleep == "'builtin_function_or_method' object has no attribute 'sleep'"

NoResult == [kind |-> "none"]
NoPrompt == [query |-> <<>>, contexts |-> <<>>, words |-> 0]

GeminiIdle ==
    /\ gem_pc = "idle" /\ gem_prompt = NoPrompt /\ gem_attempt = 0
    /\ gem_calls = <<>> /\ gem_waits = <<>> /\ gem_result = NoResult

\* generate(query, contexts) up to the first provider call: the prompt is
\* built and the loop is entered with attempt = 0.
Generate(query, contexts) ==
    /\ gem_pc = "idle"
    /\ gem_pc' = "calling"
    /\ gem_prompt' = [query |-> query, contexts |-> contexts,
                      words |-> PromptWords(query, contexts)]
    /\ gem_attempt' = 0
    /\ UNCHANGED <<gem_calls, gem_waits, gem_result>>
    /\ UNCHANGED notGemini

\* generate_content returns a response: the result is built and returned; a
\* response whose text is None makes answer.split() raise inside the try
\* block, and the handler re-raises it.
ProviderReturns(text) ==
    /\ gem_pc = "calling"
    /\ IF text = NoText
       THEN /\ gem_calls' = Append(gem_calls, NoSplit)
            /\ gem_pc' = "raised"
            /\ gem_result' = [kind |-> "error", error |-> NoSplit]
       ELSE /\ gem_calls' = Append(gem_calls, "ok")
            /\ gem_pc' = "returned"
            /\ gem_result' = [kind |-> "GenerationResult", answer |-> text,
                              latency_ms |-> 0,
                              tokens_used |-> gem_prompt.words + Len(text)]
    /\ UNCHANGED <<gem_prompt, gem_attempt, gem_waits>>
    /\ UNCHANGED notGemini

\* generate_content raises e: the except block. On a 429 of attempt 0 or 1 it
\* computes wait and calls time.sleep(wait), then the loop goes on with the
\* next attempt; otherwise it re-raises e.
ProviderRaises(e) ==
    /\ gem_pc = "calling"
    /\ gem_calls' = Append(gem_calls, e)
    /\ IF Has429(e) /\ gem_attempt < 2
       THEN LET wait == 20 * (gem_attempt + 1)
            IN IF TimeIsModule
               THEN /\ gem_waits' = Append(gem_waits, wait)
                    /\ gem_attempt' = gem_attempt + 1
                    /\ UNCHANGED <<gem_pc, gem_result>>
               ELSE /\ gem_pc' = "raised"
                    /\ gem_result' = [kind |-> "error", error |-> NoSleep]
                    /\ UNCHANGED <<gem_waits, gem_attempt>>
       ELSE /\ gem_pc' = "raised"
            /\ gem_result' = [kind |-> "error", error |-> e]
            /\ UNCHANGED <<gem_waits, gem_attempt>>
    /\ UNCHANGED gem_prompt
    /\ UNCHANGED notGemini

----------------------------------------------------------------------------
(* DocumentProcessor.chunk_text *)

ChunkerIdle ==
    /\ ck_size = 0 /\ ck_overlap = 0 /\ ck_text = <<>> /\ ck_start = 0
    /\ ck_chunks = <<>> /\ ck_pc = "idle"

\* DocumentProcessor(chunk_size, chunk_overlap) with 0 <= chunk_overlap <
\* chunk_size; the constructor checks neither argument.
ProcessorConstructed ==
    /\ ck_size \in 1..MaxChunkSize
    /\ ck_overlap \in 0..(ck_size - 1)
    /\ ck_text = <<>> /\ ck_start = 0 /\ ck_chunks = <<>> /\ ck_pc = "idle"

\* The texts handed to chunk_text.
ChunkTexts == SeqsUpTo({"a", "b"}, MaxText + 2)

\* text[start:end] for 0 <= start <= end <= len(text).
Slice(text, start, end) == SubSeq(text, start + 1, end)

\* start += self.chunk_size - self.chunk_overlap
StepSkipsOverlap(start, size, overlap) == start + size + overlap
Step(start, size, overlap) == start + size - overlap

\* chunk_text(text): chunks = [], start = 0.
ChunkText(text) ==
    /\ ck_pc = "idle"
    /\ ck_text' = text
    /\ ck_chunks' = <<>>
    /\ ck_start' = 0
    /\ ck_pc' = "loop"
    /\ UNCHANGED <<ck_size, ck_overlap>>
    /\ UNCHANGED notChunker

\* One turn of the while loop.
ChunkStep ==
    /\ ck_pc = "loop"
    /\ ck_start < Len(ck_text)
    /\ LET end == Min(ck_start + ck_size, Len(ck_text))
       IN ck_chunks' = Append(ck_chunks, Slice(ck_text, ck_start, end))
    /\ ck_start' = Step(ck_start, ck_size, ck_overlap)
    /\ UNCHANGED <<ck_size, ck_overlap, ck_text, ck_pc>>
    /\ UNCHANGED notChunker

\* The loop condition fails: return chunks.
ChunkReturn ==
    /\ ck_pc = "loop"
    /\ ~(ck_start < Len(ck_text))
    /\ ck_pc' = "done"
    /\ UNCHANGED <<ck_size, ck_overlap, ck_text, ck_start, ck_chunks>>
    /\ UNCHANGED notChunker

----------------------------------------------------------------------------
(* Specifications *)

Init == RunnerInit /\ RetrieverIdle /\ RankIdle /\ FusionIdle /\ TokenIdle
    /\ GeminiIdle /\ ChunkerIdle

Next == RunnerNext

Spec == Init /\ [][Next]_vars

\* run_all over one set-up retriever, with calls that report different
\* latencies and token counts.
AveragesInit ==
    /\ RunnerInit
    /\ Len(retrievers) = 1
    /\ Len(generators) >= 1
    /\ Len(questions) >= 1
    /\ \A r \in Range(RetNames) : ret_is_setup[r] = (r = retrievers[1])
    /\ RetrieverIdle /\ RankIdle /\ FusionIdle /\ TokenIdle
    /\ GeminiIdle /\ ChunkerIdle

AveragesNext ==
    \/ RunAll
    \/ \E reading \in RetrievalReadings : RetrieveReturns(reading)
    \/ \E gen_result \in GenerationReadings : GenerateReturns(gen_result)
    \/ JudgeReturns

SpecAverages == AveragesInit /\ [][AveragesNext]_vars

RetrieverInit == RetrieverConstructed /\ RunnerIdle /\ RankIdle /\ FusionIdle /\ TokenIdle
    /\ GeminiIdle /\ ChunkerIdle

RetrieverNext ==
    \/ \E i \in SetupInsts, c \in CorpusIds : \E at \in FailPoints(i) :
           \E encoded \in Encoded(i, at) : SetupAndTime(i, c, at, encoded, QuickSetup)
    \/ \E i \in SetupInsts : \E raises \in BOOLEAN : RetrieveAndTime(i, raises)
    \/ \E at \in LoadFailPoints : Load("vector", at)

SpecRetriever == RetrieverInit /\ [][RetrieverNext]_vars

\* The setup metrics of a sparse, a dense and the hybrid retriever built on
\* them, over setups that report different readings.
MetricsInit ==
    /\ Constructed
    /\ model_name = DefaultModels
    /\ disk = [index |-> NoIndex, chunks |-> "none"]
    /\ RunnerIdle /\ RankIdle /\ FusionIdle /\ TokenIdle
    /\ GeminiIdle /\ ChunkerIdle

MetricsNext ==
    \/ \E i \in SetupInsts, c \in CorpusIds : \E at \in FailPoints(i) :
           \E encoded \in Encoded(i, at), m \in Measurements :
               SetupAndTime(i, c, at, encoded, m)
    \/ \E i \in SetupInsts : \E raises \in BOOLEAN : RetrieveAndTime(i, raises)

SpecMetrics == MetricsInit /\ [][MetricsNext]_vars

\* Two dense retrievers and the persisted artifacts; the second retriever is
\* constructed with the same model name as the first or with another one.
PersistInit ==
    /\ Constructed
    /\ model_name \in {m \in [VectorInsts -> Models] : m["vector"] = "m1"}
    /\ disk = [index |-> NoIndex, chunks |-> "none"]
    /\ RunnerIdle /\ RankIdle /\ FusionIdle /\ TokenIdle
    /\ GeminiIdle /\ ChunkerIdle

PersistNext ==
    \/ \E i \in VectorInsts, c \in CorpusIds : \E at \in FailPoints(i) :
           \E encoded \in Encoded(i, at) : SetupAndTime(i, c, at, encoded, QuickSetup)
    \/ \E i \in VectorInsts : \E at \in SaveFailPoints : Save(i, at)
    \/ \E i \in VectorInsts : \E at \in LoadFailPoints : Load(i, at)
    \/ \E i \in VectorInsts : \E raises \in BOOLEAN : RetrieveAndTime(i, raises)

SpecPersist == PersistInit /\ [][PersistNext]_vars

\* Retrieval by each strategy over one corpus.
RankInit == RankSetUp /\ RunnerIdle /\ RetrieverIdle /\ FusionIdle /\ TokenIdle
    /\ GeminiIdle /\ ChunkerIdle

RankNext == \E strategy \in Strategies, top_k \in 1..MaxTopK : Retrieve(strategy, top_k)

SpecRank == RankInit /\ [][RankNext]_vars

\* The tokenizer on any text, called for a chunk and for a query.
TokenizeInit ==
    /\ AnyText /\ RunnerIdle /\ RetrieverIdle /\ RankIdle /\ FusionIdle
    /\ GeminiIdle /\ ChunkerIdle

TokenizeNext == \E role \in {"chunk", "query"} : TokenizeAs(role)

SpecTokenize == TokenizeInit /\ [][TokenizeNext]_vars

\* One invocation of GeminiGenerator.generate.
GeminiInit ==
    /\ GeminiIdle /\ RunnerIdle /\ RetrieverIdle /\ RankIdle /\ FusionIdle /\ TokenIdle
    /\ ChunkerIdle

GeminiNext ==
    \/ \E query \in Queries, contexts \in SeqsUpTo(Contexts, 2) :
           Generate(query, contexts)
    \/ \E text \in Answers : ProviderReturns(text)
    \/ \E e \in ProviderErrors : ProviderRaises(e)

SpecGemini == GeminiInit /\ [][GeminiNext]_vars

\* One call of chunk_text on a processor with 0 <= chunk_overlap < chunk_size.
\* The call runs on one thread that nothing stops: a turn of the loop that
\* can be taken is taken.
ChunkerInit ==
    /\ ProcessorConstructed /\ RunnerIdle /\ RetrieverIdle /\ RankIdle /\ FusionIdle
    /\ TokenIdle
    /\ GeminiIdle

ChunkerNext ==
    \/ \E text \in ChunkTexts : ChunkText(text)
    \/ ChunkStep
    \/ ChunkReturn

SpecChunker ==
    ChunkerInit /\ [][ChunkerNext]_vars /\ WF_vars(ChunkStep) /\ WF_vars(ChunkReturn)

\* The fusion step on any two candidate lists.
FusionInit == AnyCandidates /\ RunnerIdle /\ RetrieverIdle /\ RankIdle /\ TokenIdle
    /\ GeminiIdle /\ ChunkerIdle

FusionNext == \E top_k \in 1..MaxTopK : HybridFuse(top_k)

SpecFusion == FusionInit /\ [][FusionNext]_vars

\* The partial scores of the positions of one candidate list, for any rrf_k.
PartialInit == AnyRrfK /\ RunnerIdle /\ RetrieverIdle /\ RankIdle /\ TokenIdle
    /\ GeminiIdle /\ ChunkerIdle

PartialNext == Contribute

SpecPartial == PartialInit /\ [][PartialNext]_vars

\* The fusion step on two rankings of the same six chunks.
FusionRankedInit == RankedCandidates /\ RunnerIdle /\ RetrieverIdle /\ RankIdle /\ TokenIdle
    /\ GeminiIdle /\ ChunkerIdle

FusionRankedNext == \E top_k \in 2..6 : HybridFuse(top_k)

SpecFusionRanked == FusionRankedInit /\ [][FusionRankedNext]_vars

----------------------------------------------------------------------------
(* Claims about BenchmarkRunner.run_all, checked under Spec *)

QueryOps == {"retrieve", "generate"}

IsCall(i, op, q, c) == calls[i].op = op /\ calls[i].q = q /\ calls[i].c = c

\* C1: the retrieve and generate calls of question q_i are issued for every
\* combination before any retrieve or generate call of question q_(i+1), and
\* within one (question, combination) the retrieve call precedes the generate
\* call.
C1_InterleavedOrder ==
    \A j \in DOMAIN calls :
        calls[j].op \in QueryOps =>
            /\ \A i \in 1..(j - 1) :
                   calls[i].op \in QueryOps => calls[i].q <= calls[j].q
            /\ \A q \in 1..(calls[j].q - 1) : \A c \in DOMAIN combos :
                   /\ \E i \in 1..(j - 1) : IsCall(i, "retrieve", q, c)
                   /\ \E i \in 1..(j - 1) : IsCall(i, "generate", q, c)
            /\ calls[j].op = "generate" =>
                   /\ \E i \in 1..(j - 1) : IsCall(i, "retrieve", calls[j].q, calls[j].c)
                   /\ \A i \in (j + 1)..Len(calls) :
                          ~IsCall(i, "retrieve", calls[j].q, calls[j].c)

C1_Witness ==
    /\ Len(questions) >= 2
    /\ Len(combos) >= 2
    /\ \E j \in DOMAIN calls : IsCall(j, "generate", 2, Len(combos))

\* C2: the phases run strictly in sequence: no judge call is made before the
\* retrieve and generate calls of every question for every combination have
\* completed, no retrieve or generate call follows a judge call, and the batch
\* judged for a combination holds one sample per question, in question order,
\* built from the results of that combination's own retrieve and generate calls.
C2_PhasesAndBatches ==
    \A j \in DOMAIN calls :
        calls[j].op = "judge" =>
            /\ \A q \in DOMAIN questions : \A c \in DOMAIN combos :
                   /\ \E i \in 1..(j - 1) : IsCall(i, "retrieve", q, c) /\ calls[i].ok
                   /\ \E i \in 1..(j - 1) : IsCall(i, "generate", q, c) /\ calls[i].ok
            /\ \A i \in (j + 1)..Len(calls) : calls[i].op = "judge"
            /\ Len(calls[j].batch) = Len(questions)
            /\ \A k \in DOMAIN calls[j].batch :
                   LET sample == calls[j].batch[k] IN
                   /\ sample.question = questions[k]
                   /\ sample.contexts \in 1..(j - 1)
                   /\ IsCall(sample.contexts, "retrieve", k, calls[j].c)
                   /\ sample.answer \in 1..(j - 1)
                   /\ IsCall(sample.answer, "generate", k, calls[j].c)

C2_Witness ==
    \E j \in DOMAIN calls :
        /\ calls[j].op = "judge"
        /\ calls[j].c >= 2
        /\ Len(calls[j].batch) >= 2
        /\ Len(generators) >= 2

\* C3: a run_all that fails produces no ComboResult: it returns nothing and
\* self.results holds no ComboResult of that run.
C3_FailedRunNoResult ==
    pc = "failed" => (results = <<>> /\ ~returned.set)

\* C4: a failing retrieve or generate call is the last call of the run: no
\* retrieve, generate or judge call follows it.
C4_AbortOnQueryFailure ==
    \A i \in DOMAIN calls :
        (calls[i].op \in QueryOps /\ ~calls[i].ok) =>
            (i = Len(calls) /\ pc = "failed")

C4_Witness ==
    /\ pc = "failed"
    /\ calls # <<>>
    /\ calls[Len(calls)].op \in QueryOps
    /\ ~calls[Len(calls)].ok
    /\ Len(calls) >= 2
    /\ (c_i < Len(combos) \/ q_i < Len(questions))

\* The call of one operation for question q and combination c that returned.
CallOf(op, q, c) == CHOOSE j \in DOMAIN calls : IsCall(j, op, q, c) /\ calls[j].ok

\* C13: a run_all that returns gives exactly one ComboResult per (retriever,
\* generator) pair, retriever-major, each with exactly one per_question record
\* per question, the i-th record being the one of the i-th question.
C13_OnePerCombination ==
    returned.set =>
        LET R == Len(retrievers)
            G == Len(generators)
            n == Len(questions)
        IN /\ Len(returned.value) = R * G
           /\ \A ri \in 1..R : \A gi \in 1..G :
                  LET c == (ri - 1) * G + gi
                      r == returned.value[c]
                  IN /\ r.retriever_name = retrievers[ri]
                     /\ r.generator_name = generators[gi]
                     /\ Len(r.per_question) = n
                     /\ \A i \in 1..n :
                            LET record == r.per_question[i]
                                ret == calls[CallOf("retrieve", i, c)].reading
                                gen == calls[CallOf("generate", i, c)].reading
                            IN /\ record.question = questions[i]
                               /\ record.retrieval_ms = Round1(ret.latency_ms)
                               /\ record.generation_ms = Round1(gen.latency_ms)
                               /\ record.tokens = gen.tokens_used

C13_Witness ==
    /\ returned.set
    /\ Len(retrievers) >= 2
    /\ Len(generators) >= 2
    /\ Len(questions) >= 2
    /\ questions[1] # questions[2]

\* C16: run_all reads the setup metrics and measures none: it calls only
\* retrieve, generate and judge, it leaves every retriever's setup_metrics
\* and ready flag as they were when it started, and every ComboResult holds
\* the setup_metrics its retriever had at that moment.
C16_SetupMetricsNotRemeasured ==
    at_start.set =>
        /\ ret_setup_metrics = at_start.setup_metrics
        /\ ret_is_setup = at_start.is_setup
        /\ \A j \in DOMAIN calls : calls[j].op \in {"retrieve", "generate", "judge"}
        /\ \A k \in DOMAIN results :
               results[k].setup_metrics =
                   at_start.setup_metrics[results[k].retriever_name]

C16_Witness ==
    /\ returned.set
    /\ \E k, l \in DOMAIN results :
           /\ results[k].setup_metrics # results[l].setup_metrics
           /\ results[k].setup_metrics # SetupMetrics
           /\ results[l].setup_metrics # SetupMetrics

----------------------------------------------------------------------------
(* Claims about the averages of a ComboResult, checked under SpecAverages *)

\* The fraction x is a / b.
RatIs(x, a, b) == x[1] * b = a * x[2]

\* C14: in every ComboResult of a run over n >= 1 questions the averages of
\* retrieval latency, generation latency and tokens are the means of the n
\* values the combination's calls reported, avg_total_ms is the mean of the
\* n sums retrieval + generation, and it is avg_retrieval_ms +
\* avg_generation_ms.
C14_Averages ==
    \A c \in DOMAIN results :
        LET n == Len(questions)
            r == results[c]
            rv == [i \in 1..n |-> calls[CallOf("retrieve", i, c)].reading.latency_ms]
            gv == [i \in 1..n |-> calls[CallOf("generate", i, c)].reading.latency_ms]
            tv == [i \in 1..n |-> calls[CallOf("generate", i, c)].reading.tokens_used]
        IN /\ RatIs(r.avg_retrieval_ms, SumSeq(rv), n)
           /\ RatIs(r.avg_generation_ms, SumSeq(gv), n)
           /\ RatIs(r.avg_tokens, SumSeq(tv), n)
           /\ RatIs(r.avg_total_ms, SumSeq([i \in 1..n |-> rv[i] + gv[i]]), n)
           /\ RatIs(r.avg_total_ms,
                    r.avg_retrieval_ms[1] * r.avg_generation_ms[2]
                        + r.avg_generation_ms[1] * r.avg_retrieval_ms[2],
                    r.avg_retrieval_ms[2] * r.avg_generation_ms[2])

\* Two combinations judged over two questions whose calls reported different
\* values, with different averages.
C14_Witness ==
    /\ Len(results) >= 2
    /\ Len(questions) >= 2
    /\ results[1].avg_total_ms # results[2].avg_total_ms
    /\ results[1].avg_retrieval_ms # results[2].avg_retrieval_ms
    /\ \E j, k \in DOMAIN calls :
           /\ calls[j].op = "generate" /\ calls[k].op = "generate"
           /\ calls[j].c = 1 /\ calls[k].c = 1
           /\ calls[j].reading # calls[k].reading

----------------------------------------------------------------------------
(* Claims about the retriever life cycle, checked under SpecRetriever *)

C11_ReadyAfterLoad ==
    (/\ last.op = "retrieve_and_time"
     /\ completed[last.inst]
     /\ ~setup_called[last.inst]) =>
        (last.invoked /\ HasIndex(last.inst))

\* Such a retrieve_and_time that returned its result.
C11_Witness ==
    /\ last.op = "retrieve_and_time"
    /\ last.inst = "vector"
    /\ completed["vector"]
    /\ ~setup_called["vector"]
    /\ ~last.raised
    /\ chunks["vector"] = index["vector"].corpus

\* The texts of a corpus identifier under an assignment of corpora.
TextsOf(content, c) == IF c \in DOMAIN content THEN content[c] ELSE <<>>

\* C26: a run_all with no question and at least one combination builds no
\* ComboResult and never returns: it can only end with the error of its first
\* evaluate_batch call, made on an empty batch; a run_all with no combination
\* returns the empty list without any call.
C26_EmptyRun ==
    at_start.set =>
        /\ (questions = <<>> /\ combos # <<>>) =>
               /\ results = <<>>
               /\ returned = None
               /\ pc \in {"judge", "failed"}
               /\ pc = "judge" => calls = <<>>
               /\ pc = "failed" =>
                      /\ Len(calls) = 1
                      /\ calls[1].op = "judge" /\ calls[1].c = 1
                      /\ ~calls[1].ok
                      /\ calls[1].batch = <<>>
        /\ combos = <<>> =>
               /\ pc = "done"
               /\ returned = Some(<<>>)
               /\ calls = <<>>

\* A run over no question and two combinations that has ended.
C26_Witness ==
    /\ at_start.set
    /\ questions = <<>>
    /\ Len(combos) >= 2
    /\ pc = "failed"

----------------------------------------------------------------------------
(* Claims about the candidate pool of the hybrid, checked under SpecRetriever *)

\* The hybrid retriever's retrieve has just been entered.
HybridRetrieved ==
    /\ last.op = "retrieve_and_time"
    /\ last.inst = "hybrid"
    /\ last.invoked

\* C20: for every top_k, HybridRetriever.retrieve asks the dense and the
\* sparse sub-retriever for min(top_k * 3, corpus_size) results each, where
\* corpus_size is the length of the corpus the hybrid was set up with, whatever
\* the corpora hold.
C20_CandidatePoolOfSetUpCorpus ==
    HybridRetrieved =>
        LET ids == {chunks["hybrid"], set_up_with} \cap CorpusIds
        IN \A content \in [ids -> Corpora] : \A top_k \in 1..MaxTopK :
               LET corpus_size == Len(TextsOf(content, set_up_with))
                   candidate_k == IF top_k * 3 <= corpus_size THEN top_k * 3
                                  ELSE corpus_size
               IN HybridRequests(TextsOf(content, chunks["hybrid"]), top_k)
                      = [vector |-> candidate_k, bm25 |-> candidate_k]

\* C23: a setup_and_time that raises on an already set-up sparse or dense
\* retriever leaves its chunk list and its index as they were, describing the
\* previous corpus.
C23_FailedSetupLeavesState ==
    [][(/\ last'.op = "setup_and_time"
        /\ last'.inst \in {"vector", "bm25"}
        /\ last'.raised
        /\ last'.was_setup) =>
           /\ chunks'[last'.inst] = chunks[last'.inst]
           /\ index'[last'.inst] = index[last'.inst]]_vars

----------------------------------------------------------------------------
(* Claims about GeminiGenerator.generate, checked under SpecGemini *)

\* C25: generate makes at most 3 provider calls; a 429 on attempt 1 or 2 is
\* followed by a wait of 20 s times the attempt number and by the next
\* attempt; what it raises is the error of its last attempt, unchanged, which
\* is no 429 unless it was attempt 3; when it has ended it has returned a
\* GenerationResult or raised.
C25_RetriesRateLimit ==
    /\ Len(gem_calls) <= 3
    /\ \A a \in DOMAIN gem_calls :
           (Has429(gem_calls[a]) /\ a < 3) =>
               /\ gem_pc # "raised" \/ Len(gem_calls) > a
               /\ Len(gem_waits) >= a
               /\ gem_waits[a] = 20 * a
    /\ gem_pc = "raised" =>
           /\ gem_calls # <<>>
           /\ gem_result = [kind |-> "error", error |-> gem_calls[Len(gem_calls)]]
           /\ Has429(gem_result.error) => Len(gem_calls) = 3
    /\ gem_pc = "returned" =>
           /\ gem_result.kind = "GenerationResult"
           /\ gem_calls[Len(gem_calls)] = "ok"
    /\ gem_pc \in {"returned", "raised"} <=> gem_result # NoResult

----------------------------------------------------------------------------
(* Claims about chunk_text, checked under SpecChunker *)

\* The chunks built so far have between 1 and chunk_size characters, and the
\* k-th one starts (k - 1) * (chunk_size - chunk_overlap) characters into the
\* text.
ChunksSpaced ==
    \A k \in DOMAIN ck_chunks :
        LET from == (k - 1) * (ck_size - ck_overlap)
            upto == IF from + ck_size <= Len(ck_text) THEN from + ck_size
                    ELSE Len(ck_text)
        IN /\ Len(ck_chunks[k]) \in 1..ck_size
           /\ ck_chunks[k] = [p \in 1..(upto - from) |-> ck_text[from + p]]

\* Every character of the text lies in a chunk.
ChunksCover ==
    \A p \in DOMAIN ck_text :
        \E k \in DOMAIN ck_chunks :
            LET from == (k - 1) * (ck_size - ck_overlap)
            IN from < p /\ p <= from + Len(ck_chunks[k])

\* C27: for 0 <= chunk_overlap < chunk_size, chunk_text terminates; every
\* chunk has between 1 and chunk_size characters; consecutive chunks start
\* chunk_size - chunk_overlap apart from position 0; the chunks cover every
\* character of the text; an empty text yields no chunk.
C27_ChunkTextTerminatesAndCovers ==
    /\ [](ChunksSpaced /\ (ck_pc = "done" => ChunksCover)
                       /\ (ck_text = <<>> => ck_chunks = <<>>))
    /\ (ck_pc = "loop" ~> ck_pc = "done")

\* A return with three chunks or more that overlap, the last one short.
C27_Witness ==
    /\ ck_pc = "done"
    /\ Len(ck_chunks) >= 3
    /\ ck_overlap > 0
    /\ Len(ck_chunks[Len(ck_chunks)]) < ck_size

----------------------------------------------------------------------------
(* Claims about the tokenizer, checked under SpecTokenize *)

\* The maximal runs of characters of [a-z0-9] in a text, as <<first, last>>
\* positions.
MaximalRuns(text) ==
    {run \in (DOMAIN text) \X (DOMAIN text) :
        /\ run[1] <= run[2]
        /\ \A p \in run[1]..run[2] : text[p] \in {"a", "z", "i", "7"}
        /\ run[1] = 1 \/ text[run[1] - 1] \notin {"a", "z", "i", "7"}
        /\ run[2] = Len(text) \/ text[run[2] + 1] \notin {"a", "z", "i", "7"}}

\* C19: _tokenize returns exactly the maximal runs of [a-z0-9] characters of
\* the lower-cased text, in order; every token is non-empty and made of such
\* characters only; a repeated call, for a chunk or for a query, returns the
\* same tokens.
C19_TokensAreMaximalRuns ==
    tok_last.role # "none" =>
        LET lowered == Lower(tok_text)
            runs == MaximalRuns(lowered)
            tokens == tok_last.tokens
        IN /\ Len(tokens) = Cardinality(runs)
           /\ \A k \in DOMAIN tokens :
                  \E run \in runs :
                      /\ Cardinality({r \in runs : r[1] < run[1]}) = k - 1
                      /\ tokens[k] = SubSeq(lowered, run[1], run[2])
           /\ \A k \in DOMAIN tokens :
                  /\ tokens[k] # <<>>
                  /\ \A p \in DOMAIN tokens[k] :
                         tokens[k][p] \in {"a", "z", "i", "7"}
           /\ tok_prev.role # "none" => tok_prev.tokens = tokens

\* A chunk and a query of the same text, with a leading separator, an
\* upper-case letter and two tokens.
C19_Witness ==
    /\ tok_last.role = "query"
    /\ tok_prev.role = "chunk"
    /\ Len(tok_last.tokens) = 2
    /\ tok_text # <<>>
    /\ tok_text[1] \notin {"a", "Z", "7"}
    /\ \E p \in DOMAIN tok_text : tok_text[p] = "Z"

----------------------------------------------------------------------------
(* Claims about the setup metrics, checked under SpecMetrics *)

HybridSetupCompletes ==
    last'.op = "setup_and_time" /\ last'.inst = "hybrid" /\ ~last'.raised

\* C15: when a setup_and_time of the hybrid completes, the hybrid's
\* embedding_ms is the dense sub-retriever's, its tokenizing_ms the sparse
\* sub-retriever's and its indexing_ms the sum of both indexing_ms; its
\* total_ms and memory_peak_mb are the readings of that setup_and_time, and no
\* other step writes them.
C15_HybridAggregates ==
    [][LET h == setup_metrics'["hybrid"]
           v == setup_metrics'["vector"]
           b == setup_metrics'["bm25"]
       IN /\ HybridSetupCompletes =>
                 /\ h.embedding_ms = v.embedding_ms
                 /\ h.tokenizing_ms = b.tokenizing_ms
                 /\ h.indexing_ms = v.indexing_ms + b.indexing_ms
                 /\ \E m \in Measurements :
                        /\ h.total_ms = m.total_ms
                        /\ h.memory_peak_mb = m.memory_peak_mb
          /\ ~HybridSetupCompletes =>
                 /\ h.total_ms = setup_metrics["hybrid"].total_ms
                 /\ h.memory_peak_mb = setup_metrics["hybrid"].memory_peak_mb]_vars

\* The hybrid set up after its dense sub-retriever had been set up on its own
\* with other readings.
C15_Witness ==
    /\ last.op = "setup_and_time" /\ last.inst = "hybrid" /\ ~last.raised
    /\ setup_metrics["hybrid"].indexing_ms > 0
    /\ setup_metrics["hybrid"].embedding_ms > 0
    /\ setup_metrics["vector"].total_ms > 0
    /\ setup_metrics["vector"].total_ms # setup_metrics["hybrid"].total_ms

\* C17: once a setup_and_time of an instance has completed, no operation
\* other than a setup_and_time of that instance changes its setup_metrics.
C17_MetricsWrittenOnce ==
    [][\A i \in Insts :
          (completed[i] /\ ~(last'.op = "setup_and_time" /\ last'.inst = i)) =>
              setup_metrics'[i] = setup_metrics[i]]_vars

----------------------------------------------------------------------------
(* Claims about the ranking of each strategy, checked under SpecRank *)

NoDuplicates(s) == \A p, q \in DOMAIN s : s[p] = s[q] => p = q

\* C7: for each strategy (sparse, dense, hybrid), every corpus, every query
\* and every top_k >= 1, the chunks of the returned RetrievalResult hold no
\* string twice and are at most top_k long.
C7_DeduplicatedWithinTopK ==
    (rank_last.strategy \in Strategies /\ rank_last.chunks # Raises) =>
        /\ NoDuplicates(rank_last.chunks)
        /\ Len(rank_last.chunks) <= rank_last.top_k

\* Position i of the corpus ranks before position j: a higher BM25 score, or
\* the same score and an earlier place in the corpus.
RanksBefore(i, j) ==
    LET si == bm25_scores[corpus[i]]
        sj == bm25_scores[corpus[j]]
    IN si > sj \/ (si = sj /\ i < j)

\* The corpus position that exactly p - 1 positions rank before.
Ranked(p) ==
    CHOOSE i \in DOMAIN corpus :
        Cardinality({j \in DOMAIN corpus : RanksBefore(j, i)}) = p - 1

\* C24: when top_k exceeds the corpus size, the dense retriever returns at
\* most corpus_size texts, each the text of a corpus position of its own: a
\* slot the index search reports as -1 contributes no text.
C24_UnfilledSlotsGiveNoText ==
    (/\ rank_last.strategy = "dense"
     /\ rank_last.top_k > Len(corpus)
     /\ rank_last.chunks # Raises) =>
        /\ Len(rank_last.chunks) <= Len(corpus)
        /\ \E f \in [DOMAIN rank_last.chunks -> DOMAIN corpus] :
               /\ \A p, q \in DOMAIN f : p # q => f[p] # f[q]
               /\ \A p \in DOMAIN f : corpus[f[p]] = rank_last.chunks[p]

\* C9: the sparse retriever returns the texts of the top_k chunks by
\* descending score, chunks of equal score in corpus order, and a repeated
\* call with the same corpus, query and top_k returns the same sequence.
C9_SparseStableTopK ==
    rank_last.strategy = "sparse" =>
        /\ Len(rank_last.chunks) = Min(rank_last.top_k, Len(corpus))
        /\ \A p \in DOMAIN rank_last.chunks : rank_last.chunks[p] = corpus[Ranked(p)]
        /\ (rank_prev.strategy = "sparse" /\ rank_prev.top_k = rank_last.top_k) =>
               rank_prev.chunks = rank_last.chunks

\* A repeated sparse call that cut a corpus of two different texts with the
\* same score to its first chunk.
C9_Witness ==
    /\ rank_last.strategy = "sparse"
    /\ rank_prev.strategy = "sparse"
    /\ rank_prev.top_k = rank_last.top_k
    /\ Len(corpus) > rank_last.top_k
    /\ \E i, j \in DOMAIN corpus :
           corpus[i] # corpus[j] /\ bm25_scores[corpus[i]] = bm25_scores[corpus[j]]

----------------------------------------------------------------------------
(* The reference reciprocal-rank fusion, checked under SpecFusionRanked *)

RatGt(x, y) == x[1] * y[2] > y[1] * x[2]

\* The sum of 1 / (k + r + 1) over the 0-indexed ranks r at which the list
\* holds the text, from list position p on.
RECURSIVE PartialScore(_, _, _, _)
PartialScore(list, text, p, k) ==
    IF p > Len(list) THEN <<0, 1>>
    ELSE LET rest == PartialScore(list, text, p + 1, k)
         IN IF list[p] = text THEN RatAdd(<<1, k + (p - 1) + 1>>, rest) ELSE rest

SummedScore(text, v, b, k) ==
    RatAdd(PartialScore(v, text, 1, k), PartialScore(b, text, 1, k))

\* The place at which the scan of the dense list, then the sparse list, meets
\* the text first.
FirstEncounter(text, v, b) ==
    LET both == v \o b
    IN CHOOSE p \in DOMAIN both :
           both[p] = text /\ \A q \in 1..(p - 1) : both[q] # text

ReferenceRRF(v, b, k, top_k) ==
    LET distinct == Range(v) \cup Range(b)
        Before(t, u) ==
            \/ RatGt(SummedScore(t, v, b, k), SummedScore(u, v, b, k))
            \/ /\ SummedScore(t, v, b, k) = SummedScore(u, v, b, k)
               /\ FirstEncounter(t, v, b) < FirstEncounter(u, v, b)
        place(t) == 1 + Cardinality({u \in distinct : Before(u, t)})
    IN [p \in 1..Min(top_k, Cardinality(distinct)) |->
           CHOOSE t \in distinct : place(t) = p]

\* The place of a text in a list (0 when the list lacks it).
PlaceIn(list, text) ==
    IF \E p \in DOMAIN list : list[p] = text
    THEN CHOOSE p \in DOMAIN list : list[p] = text /\ \A q \in 1..(p - 1) : list[q] # text
    ELSE 0

\* C18 (checked under SpecFusion): a text at rank 0 of both candidate lists
\* is placed in the fused ranking at or above every other text (every other
\* text is at rank 0 of neither list).
C18_TopOfBothRanksFirst ==
    (/\ fused.set
     /\ vector_results # <<>>
     /\ bm25_results # <<>>
     /\ vector_results[1] = bm25_results[1]) =>
        \A p \in DOMAIN fused.chunks :
            fused.chunks[p] # vector_results[1] =>
                PlaceIn(fused.chunks, vector_results[1]) \in 1..p

\* C8: the list HybridRetriever.retrieve returns is the reference fusion of
\* the two candidate lists: summed 1 / (rrf_k + r + 1) per distinct text,
\* descending, equal sums by first encounter, cut to top_k.
C8_FusionIsReferenceRRF ==
    fused.set =>
        fused.chunks = ReferenceRRF(vector_results, bm25_results, rrf_k, fused.top_k)

\* C22: the partial score 1 / (rrf_k + r + 1) of the list position of rank r
\* is positive, at most 1 / (rrf_k + 1), and smaller than the one of rank
\* r - 1 (compared as the floats the division yields).
C22_PartialScoreBounds ==
    \A p \in DOMAIN partials :
        /\ partials[p][2] > 0
        /\ ~FloatGt(partials[p], Recip(rrf_k + 1))
        /\ p > 1 => FloatGt(partials[p - 1], partials[p])

\* The default rrf_k and a candidate list of the top_k * 3 entries of the
\* largest top_k.
C22_Witness ==
    /\ rrf_k = DefaultRrfK
    /\ Len(partials) = 3 * MaxTopK

\* C21: the fused ranking, before it is cut to top_k, holds every chunk text
\* of the dense candidate list and of the sparse candidate list exactly once
\* and no other text; the returned list is its first top_k entries.
C21_FusionComplete ==
    fused.set =>
        LET candidates == Range(vector_results) \cup Range(bm25_results)
        IN /\ \A t \in candidates :
                  Cardinality({p \in DOMAIN fused.ranking : fused.ranking[p] = t}) = 1
           /\ Range(fused.ranking) \subseteq candidates
           /\ fused.chunks \in Prefixes(fused.ranking)
           /\ Len(fused.chunks) = Min(fused.top_k, Len(fused.ranking))

\* A fusion cut by top_k, of lists that share a text, differ in another and
\* repeat a text.
C21_Witness ==
    /\ fused.set
    /\ Len(fused.ranking) > fused.top_k
    /\ Range(vector_results) \cap Range(bm25_results) # {}
    /\ Range(vector_results) \ Range(bm25_results) # {}
    /\ Range(bm25_results) \ Range(vector_results) # {}
    /\ Len(bm25_results) > Cardinality(Range(bm25_results))

----------------------------------------------------------------------------
(* Claims about save and load, checked under SpecPersist *)

\* retrieve of a dense retriever with the given index, chunk list and model,
\* for a query whose similarities are emb[<<query model, index model>>].
RetrieveOf(ix, ch, m, content, emb, top_k) ==
    VectorRetrieve(ix # NoIndex, TextsOf(content, ix.corpus), TextsOf(content, ch),
                   IF ix = NoIndex THEN [t \in Texts |-> 0] ELSE emb[<<m, ix.model>>],
                   top_k)

\* Instance i returns, for every corpus content, every query and every top_k,
\* what the instance saved last returned when it was saved.
SameRetrieveAsSaved(i) ==
    LET ids == {index[i].corpus, chunks[i], saved.index.corpus, saved.chunks}
                   \cap CorpusIds
        keys == {<<model_name[i], index[i].model>>, <<saved.model, saved.index.model>>}
    IN \A content \in [ids -> Corpora] : \A emb \in [keys -> Sims] :
           \A top_k \in 1..MaxTopK :
               RetrieveOf(index[i], chunks[i], model_name[i], content, emb, top_k)
                   = RetrieveOf(saved.index, saved.chunks, saved.model, content, emb,
                                top_k)

\* The index holds another number of vectors than the chunk list has entries.
OutOfSync(content, ix, ch) ==
    /\ ix # NoIndex
    /\ Len(TextsOf(content, ix.corpus)) # Len(TextsOf(content, ch))

\* C12: a dense retriever that loaded an index and a chunk list that are out
\* of sync aborts: when the load did not raise, retrieve raises for every
\* query and top_k instead of returning a list.
C12_OutOfSyncAborts ==
    (last.op = "load" /\ ~last.raised) =>
        LET i == last.inst
            ids == {index[i].corpus, chunks[i]} \cap CorpusIds
            keys == {<<model_name[i], index[i].model>>}
        IN \A content \in [ids -> Corpora] :
               OutOfSync(content, index[i], chunks[i]) =>
                   \A emb \in [keys -> Sims] : \A top_k \in 1..MaxTopK :
                       RetrieveOf(index[i], chunks[i], model_name[i], content, emb,
                                  top_k) = Raises

\* A load that completed on another instance than the set-up one whose
\* complete save wrote the two artifacts.
LoadedFromSave ==
    /\ last.op = "load"
    /\ ~last.raised
    /\ saved.set
    /\ saved.ready
    /\ last.inst # saved.inst

\* C10 as stated: save on a set-up dense retriever, then load of the two
\* artifacts into another dense retriever, gives the same retrieve output as
\* the pre-save instance for every query and top_k.
C10_RoundTripAnyRetriever ==
    LoadedFromSave => SameRetrieveAsSaved(last.inst)

\* C10, amended: the same, for another dense retriever constructed with the
\* same embedding model as the saved one.
C10_RoundTripSameModel ==
    (LoadedFromSave /\ model_name[last.inst] = saved.model) =>
        SameRetrieveAsSaved(last.inst)

C10_Witness ==
    /\ LoadedFromSave
    /\ model_name[last.inst] = saved.model
    /\ saved.index # NoIndex
    /\ saved.chunks = saved.index.corpus
    /\ completed[saved.inst]
    /\ index[saved.inst] # saved.index

====
